---------------------------- MODULE Spec2Model ----------------------------
(***************************************************************************)
(* Role-hierarchy explorer: the Fetch Client (FetchWorker and the          *)
(* SnowflakeViewerApp slots that drive it) and the recursive role          *)
(* hierarchy query of get_role_hierarchy_route.                            *)
(*                                                                         *)
(* Fetch Client (specification Spec).  The main thread runs the Qt event   *)
(* loop: it handles user input (start_fetch_data, closeEvent) and the      *)
(* events posted to it, in posting order.  A signal emitted inside         *)
(* FetchWorker.run, and the QThread's finished signal, are emitted on the  *)
(* worker thread and reach the slots of the window as queued events.       *)
(* QThread.isRunning() is true from start() until run() has returned and   *)
(* the thread is about to emit finished.  deleteLater() posts a DeferredDelete event; deleting a       *)
(* QThread that is still running ends the process (qFatal), and so does    *)
(* a Python exception that leaves run().  QMessageBox.critical/warning     *)
(* open a modal dialog: its nested event loop keeps delivering posted      *)
(* events and the window takes no input until the user dismisses it.  No   *)
(* slot does anything after its message box returns, so a box only delays  *)
(* the user's next input, which may come at any later time anyway: open    *)
(* boxes are not part of the state.  A FetchWorker whose thread is done    *)
(* and whose finished signal has been handled is referenced by nothing     *)
(* any more (on_fetch_finished leaves fetch_worker None): the object is    *)
(* released, and its fields and its history are dropped.                   *)
(***************************************************************************)
EXTENDS Integers, Sequences, FiniteSets, TLC

\* Bound of the model: FetchWorker objects created in one run of the app.
MaxWorkers == 3

\* Bound of SpecRun, which follows single runs of FetchWorker over every response.
MaxRuns == 1

Workers == 1..MaxWorkers

VARIABLES
    app,            \* "running" | "closing" (closeEvent in wait()) | "closed" | "aborted"
    fetch_worker,   \* SnowflakeViewerApp.fetch_worker: 0 is None, else a worker
    created,        \* number of FetchWorker objects constructed so far
    wpc,            \* position of each worker thread
    is_running,     \* FetchWorker._is_running
    resp,           \* run()'s local response: what requests.get produced, else "none"
    emitted,        \* names of the signals emitted by run(), in order (history)
    netCalls,       \* number of requests.get calls issued (history)
    stoppedAt,      \* position of the worker when stop() was called, "never" (history)
    queue,          \* events posted to the main thread, oldest first
    handled,        \* slots run for each worker's signals, in order (history)
    fetch_button,   \* fetch_button.isEnabled()
    copy_button,    \* copy_button.isEnabled()
    save_action,    \* save_action.isEnabled()
    table,          \* table_widget: what it shows and the request that last wrote it
    status_bar,     \* kind of the last status message
    gtu,            \* snowflake.account_usage.grants_to_users, a sequence of rows
    gtr,            \* snowflake.account_usage.grants_to_roles, a sequence of rows
    user_name_param,\* request.args.get('user_name'): "absent" or a string
    user_name_upper,\* the bound parameter of the query
    qpc,            \* position of get_role_hierarchy_route
    work,           \* rows of user_role_hierarchy added by the last iteration
    urh,            \* rows of user_role_hierarchy so far
    results,        \* cur.fetchall(): the rows in the order of the final SELECT
    response,       \* what the route returns: status and JSON body
    conn,           \* the connection: "none" | "open" | "closed" | "close_failed"
    cur,            \* the cursor: "none" | "open" | "closed" | "close_failed"
    executed,       \* cur.execute has been called (history)
    pending,        \* what the inner try block left with: a return or an exception
    scan,           \* the order in which this execution reads the rows of the views
    raised          \* the last exception raised in the route and where (history)

fvars == <<app, fetch_worker, created, wpc, is_running, resp, emitted, netCalls,
           stoppedAt, queue, handled, fetch_button, copy_button, save_action,
           table, status_bar>>

\* The fields and the history of the FetchWorker objects.
wvars == <<wpc, is_running, resp, emitted, netCalls, stoppedAt>>

\* The widgets of the window.
uivars == <<fetch_button, copy_button, save_action, table, status_bar>>

\* The state of the main thread.
mvars == <<app, fetch_worker, created, handled>>

\* The variables of get_role_hierarchy_route and of the Grant Store.
rvars == <<gtu, gtr, user_name_param, user_name_upper, qpc, work, urh, results,
           response, conn, cur, executed, pending, scan, raised>>

\* The variables of the query and of the store, which the steps around the query
\* leave alone.
qvars == <<gtu, gtr, work, urh, results>>

\* The connection, the cursor and the history of the route.
cvars == <<conn, cur, executed, pending, raised>>

vars == <<fvars, rvars>>

-----------------------------------------------------------------------------
(* Strings are sequences of character codes (ASCII).                       *)

Whitespace == {9, 10, 13, 32}

RECURSIVE LStrip(_)
LStrip(s) == IF s # <<>> /\ Head(s) \in Whitespace THEN LStrip(Tail(s)) ELSE s

RECURSIVE RStrip(_)
RStrip(s) == IF s # <<>> /\ s[Len(s)] \in Whitespace
             THEN RStrip(SubSeq(s, 1, Len(s) - 1)) ELSE s

\* str.strip()
Strip(s) == RStrip(LStrip(s))

\* Texts the user may have typed in user_name_input: "", " ", "a", " a ".
InputTexts == {<<>>, <<32>>, <<97>>, <<32, 97, 32>>}

-----------------------------------------------------------------------------
(* Responses of the transport call.                                        *)

\* raise_for_status() passes; the body is what response.json() yields.
Ok2xx == {"ok_rows", "ok_sentinel", "ok_empty", "ok_error_object", "ok_other",
          "ok_undecodable"}

\* raise_for_status() raises HTTPError; the kind names the body.
Http4xx5xx == {"http_obj_both", "http_obj_error", "http_obj_none", "http_list",
               "http_string", "http_string_error", "http_number", "http_null",
               "http_notjson"}

Responses == Ok2xx \cup Http4xx5xx \cup {"timeout", "conn_error"}

FailureResponses == Responses \ {"ok_rows", "ok_sentinel", "ok_empty"}

\* One response for each way run() can end: data_ready with rows, data_ready
\* with the sentinel, error_occurred after a 2xx, error_occurred from an except
\* clause, an exception that leaves run().
ProtocolResponses == {"ok_rows", "ok_sentinel", "ok_other", "timeout", "http_null"}

\* Argument of data_ready for a 2xx list body.
ListArg(r) == CASE r = "ok_rows" -> "rows"
                [] r = "ok_sentinel" -> "sentinel"
                [] r = "ok_empty" -> "empty"

\* Lines 186-194 without line 191: the details of the error body are left out.
HttpErrorHandling_NoDetails(r) ==
    CASE r = "http_obj_both"     -> [raises |-> FALSE, msg |-> "HttpError+error"]
      [] r = "http_obj_error"    -> [raises |-> FALSE, msg |-> "HttpError+error"]
      [] r = "http_obj_none"     -> [raises |-> FALSE, msg |-> "HttpError"]
      [] r = "http_list"         -> [raises |-> FALSE, msg |-> "HttpError"]
      [] r = "http_string"       -> [raises |-> FALSE, msg |-> "HttpError"]
      [] r = "http_string_error" -> [raises |-> TRUE,  msg |-> "AttributeError"]
      [] r = "http_number"       -> [raises |-> TRUE,  msg |-> "TypeError"]
      [] r = "http_null"         -> [raises |-> TRUE,  msg |-> "TypeError"]
      [] r = "http_notjson"      -> [raises |-> FALSE, msg |-> "HttpError"]

\* Lines 186-194: the message built for an HTTPError, or the exception that
\* leaves the handler.  `"error" in x` is a key test on a dict, a membership
\* test on a list, a substring test on a str and a TypeError on a number or
\* None; x.get exists on a dict only.
HttpErrorHandling(r) ==
    CASE r = "http_obj_both"     -> [raises |-> FALSE, msg |-> "HttpError+error+details"]
      [] r = "http_obj_error"    -> [raises |-> FALSE, msg |-> "HttpError+error"]
      [] r = "http_obj_none"     -> [raises |-> FALSE, msg |-> "HttpError"]
      [] r = "http_list"         -> [raises |-> FALSE, msg |-> "HttpError"]
      [] r = "http_string"       -> [raises |-> FALSE, msg |-> "HttpError"]
      [] r = "http_string_error" -> [raises |-> TRUE,  msg |-> "AttributeError"]
      [] r = "http_number"       -> [raises |-> TRUE,  msg |-> "TypeError"]
      [] r = "http_null"         -> [raises |-> TRUE,  msg |-> "TypeError"]
      [] r = "http_notjson"      -> [raises |-> FALSE, msg |-> "HttpError"]

-----------------------------------------------------------------------------
(* FetchWorker                                                             *)

Event(s, w, a) == [sig |-> s, w |-> w, arg |-> a]

\* QThread.isRunning()
isRunning(w) == wpc[w] \in {"started", "inflight", "returned", "parse", "except",
                            "run_done"}

\* The process has not been ended by qFatal.
ThreadAlive == app # "aborted"

\* An event posted to the main thread.
Post(e) == queue' = Append(queue, e)

\* self.data_ready.emit(data) / self.error_occurred.emit(msg) inside run()
Emit(w, s, a) ==
    /\ emitted' = [emitted EXCEPT ![w] = Append(@, s)]
    /\ Post(Event(s, w, a))

\* The emissions of one step of run(): es is a sequence of <<signal, argument>>.
EmitAll(w, es) ==
    /\ emitted' = [emitted EXCEPT ![w] = @ \o [i \in 1..Len(es) |-> es[i][1]]]
    /\ queue' = queue \o [i \in 1..Len(es) |-> Event(es[i][1], w, es[i][2])]

NoEmit == UNCHANGED <<emitted, queue>>

\* stop() that leaves _is_running as it is.
stop_KeepsFlag(w) ==
    /\ UNCHANGED is_running
    /\ stoppedAt' = [stoppedAt EXCEPT ![w] = IF @ = "never" THEN wpc[w] ELSE @]

\* FetchWorker.stop()
stop(w) ==
    /\ is_running' = [is_running EXCEPT ![w] = FALSE]
    /\ stoppedAt' = [stoppedAt EXCEPT ![w] = IF @ = "never" THEN wpc[w] ELSE @]

\* The object of w is released: its thread is done, its finished signal handled.
Release(w) ==
    /\ wpc' = [wpc EXCEPT ![w] = "released"]
    /\ is_running' = [is_running EXCEPT ![w] = TRUE]
    /\ resp' = [resp EXCEPT ![w] = "none"]
    /\ emitted' = [emitted EXCEPT ![w] = <<>>]
    /\ netCalls' = [netCalls EXCEPT ![w] = 0]
    /\ stoppedAt' = [stoppedAt EXCEPT ![w] = "never"]
    /\ handled' = [handled EXCEPT ![w] = <<>>]

\* run() without the checkpoint of line 168: the call is always issued.
run_check_before_Missing(w) ==
    /\ ThreadAlive /\ wpc[w] = "started"
    /\ wpc' = [wpc EXCEPT ![w] = "inflight"]
    /\ netCalls' = [netCalls EXCEPT ![w] = @ + 1]
    /\ UNCHANGED <<is_running, resp, emitted, stoppedAt, queue, mvars, uivars>>
    /\ UNCHANGED rvars

\* Line 168: the first checkpoint; line 171: the call is issued.
run_check_before(w) ==
    /\ ThreadAlive /\ wpc[w] = "started"
    /\ IF ~is_running[w]
         THEN wpc' = [wpc EXCEPT ![w] = "run_done"] /\ UNCHANGED netCalls
         ELSE /\ wpc' = [wpc EXCEPT ![w] = "inflight"]
              /\ netCalls' = [netCalls EXCEPT ![w] = @ + 1]
    /\ UNCHANGED <<is_running, resp, emitted, stoppedAt, queue, mvars, uivars>>
    /\ UNCHANGED rvars

\* Lines 171-172: requests.get returns or raises, raise_for_status() raises.
run_get_returns(w, r) ==
    /\ ThreadAlive /\ wpc[w] = "inflight"
    /\ resp' = [resp EXCEPT ![w] = r]
    /\ wpc' = [wpc EXCEPT ![w] = IF r \in Ok2xx THEN "returned" ELSE "except"]
    /\ UNCHANGED <<is_running, emitted, netCalls, stoppedAt, queue, mvars, uivars>>
    /\ UNCHANGED rvars

\* run() without the checkpoint of line 174: the body is always parsed.
run_check_after_Missing(w) ==
    /\ ThreadAlive /\ wpc[w] = "returned"
    /\ wpc' = [wpc EXCEPT ![w] = "parse"]
    /\ UNCHANGED <<resp, is_running, emitted, netCalls, stoppedAt, queue, mvars, uivars>>
    /\ UNCHANGED rvars

\* Line 174: the second checkpoint.
run_check_after(w) ==
    /\ ThreadAlive /\ wpc[w] = "returned"
    /\ IF is_running[w]
         THEN wpc' = [wpc EXCEPT ![w] = "parse"] /\ UNCHANGED resp
         ELSE wpc' = [wpc EXCEPT ![w] = "run_done"] /\ resp' = [resp EXCEPT ![w] = "none"]
    /\ UNCHANGED <<is_running, emitted, netCalls, stoppedAt, queue, mvars, uivars>>
    /\ UNCHANGED rvars

\* Lines 176-182 with the else of line 179 lost: an object without "error"
\* is reported and then handed on as data.
ParseOutcome_NoElse(r) ==
    CASE r \in {"ok_rows", "ok_sentinel", "ok_empty"} -> <<<<"data_ready", ListArg(r)>>>>
      [] r = "ok_error_object" -> <<<<"error_occurred", "BackendError">>>>
      [] r = "ok_other" -> <<<<"error_occurred", "UnexpectedFormat">>,
                             <<"data_ready", "rows">>>>

\* Line 176 testing the truth of data for isinstance(data, list): an empty
\* list is reported as an unexpected format.
ParseOutcome_EmptyListRefused(r) ==
    CASE r \in {"ok_rows", "ok_sentinel"} -> <<<<"data_ready", ListArg(r)>>>>
      [] r = "ok_empty" -> <<<<"error_occurred", "UnexpectedFormat">>>>
      [] r = "ok_error_object" -> <<<<"error_occurred", "BackendError">>>>
      [] r = "ok_other" -> <<<<"error_occurred", "UnexpectedFormat">>>>

\* Lines 176-177 refusing the list that holds the sentinel message.
ParseOutcome_SentinelRefused(r) ==
    CASE r \in {"ok_rows", "ok_empty"} -> <<<<"data_ready", ListArg(r)>>>>
      [] r = "ok_sentinel" -> <<<<"error_occurred", "UnexpectedFormat">>>>
      [] r = "ok_error_object" -> <<<<"error_occurred", "BackendError">>>>
      [] r = "ok_other" -> <<<<"error_occurred", "UnexpectedFormat">>>>

\* Lines 176-182: the signals emitted for a decoded body, in order.
ParseOutcome(r) ==
    CASE r \in {"ok_rows", "ok_sentinel", "ok_empty"} -> <<<<"data_ready", ListArg(r)>>>>
      [] r = "ok_error_object" -> <<<<"error_occurred", "BackendError">>>>
      [] r = "ok_other" -> <<<<"error_occurred", "UnexpectedFormat">>>>

\* Lines 175-182, and lines 195-198 for a body response.json() cannot decode:
\* requests raises a JSONDecodeError that is a ValueError and, from requests
\* 2.27 on, a RequestException too, so either handler may be the one that runs.
run_parse(w, decodeMsg) ==
    /\ ThreadAlive /\ wpc[w] = "parse"
    /\ IF resp[w] = "ok_undecodable"
         THEN IF is_running[w] THEN Emit(w, "error_occurred", decodeMsg) ELSE NoEmit
         ELSE EmitAll(w, ParseOutcome(resp[w]))
    /\ wpc' = [wpc EXCEPT ![w] = "run_done"]
    /\ resp' = [resp EXCEPT ![w] = "none"]
    /\ UNCHANGED <<is_running, netCalls, stoppedAt, mvars, uivars>>
    /\ UNCHANGED rvars

\* Lines 183-196: the handlers of Timeout, HTTPError and RequestException.
run_except(w) ==
    /\ ThreadAlive /\ wpc[w] = "except"
    /\ IF ~is_running[w]
         THEN NoEmit /\ wpc' = [wpc EXCEPT ![w] = "run_done"] /\ UNCHANGED app
       ELSE IF resp[w] = "timeout"
         THEN /\ Emit(w, "error_occurred", "Timeout")
              /\ wpc' = [wpc EXCEPT ![w] = "run_done"] /\ UNCHANGED app
       ELSE IF resp[w] = "conn_error"
         THEN /\ Emit(w, "error_occurred", "TransportError")
              /\ wpc' = [wpc EXCEPT ![w] = "run_done"] /\ UNCHANGED app
       ELSE LET h == HttpErrorHandling(resp[w]) IN
            IF h.raises
              THEN \* the exception leaves run(): PyQt ends the process
                   NoEmit /\ wpc' = [wpc EXCEPT ![w] = "raised"] /\ app' = "aborted"
              ELSE /\ Emit(w, "error_occurred", h.msg)
                   /\ wpc' = [wpc EXCEPT ![w] = "run_done"] /\ UNCHANGED app
    /\ resp' = [resp EXCEPT ![w] = "none"]
    /\ UNCHANGED <<is_running, netCalls, stoppedAt, fetch_worker, created, handled,
                   uivars>>
    /\ UNCHANGED rvars

\* run() has returned: the thread stops being isRunning() and emits finished.
QThread_emit_finished(w) ==
    /\ ThreadAlive /\ wpc[w] = "run_done"
    /\ wpc' = [wpc EXCEPT ![w] = "finished"]
    /\ Post(Event("finished", w, "-"))
    /\ UNCHANGED <<is_running, resp, emitted, netCalls, stoppedAt, mvars, uivars>>
    /\ UNCHANGED rvars

-----------------------------------------------------------------------------
(* SnowflakeViewerApp                                                      *)

\* The window takes user input while the event loop runs.
AcceptsInput == app = "running"

\* The guard of line 355 left out: every start is accepted.
AlreadyInProgress_NoGuard == FALSE

\* Line 355: the single-flight guard of start_fetch_data
AlreadyInProgress == fetch_worker # 0 /\ isRunning(fetch_worker)

\* start_fetch_data without lines 368-370: the table and the copy and save
\* actions are left as the earlier request set them.
start_fetch_data_KeepsOutcome(text, via) ==
    /\ AcceptsInput
    /\ via = "clicked" => fetch_button
    /\ IF AlreadyInProgress
         THEN /\ status_bar' = "already in progress"
              /\ UNCHANGED <<wvars, queue, mvars, fetch_button, copy_button,
                             save_action, table>>
       ELSE IF Strip(text) = <<>>
         THEN UNCHANGED <<wvars, queue, mvars, uivars>>
       ELSE /\ created < MaxWorkers
            /\ LET w == created + 1 IN
               /\ status_bar' = "fetching"
               /\ fetch_button' = FALSE
               /\ created' = w
               /\ fetch_worker' = w
               /\ is_running' = [is_running EXCEPT ![w] = TRUE]
               /\ wpc' = [wpc EXCEPT ![w] = "started"]
            /\ UNCHANGED <<app, resp, emitted, netCalls, stoppedAt, queue, handled,
                           copy_button, save_action, table>>
    /\ UNCHANGED rvars

\* start_fetch_data, reached by fetch_button.clicked or user_name_input.returnPressed
start_fetch_data(text, via) ==
    /\ AcceptsInput
    /\ via = "clicked" => fetch_button
    /\ IF AlreadyInProgress
         THEN /\ status_bar' = "already in progress"
              /\ UNCHANGED <<wvars, queue, mvars, fetch_button, copy_button,
                             save_action, table>>
       ELSE IF Strip(text) = <<>>
         THEN \* QMessageBox.warning
              UNCHANGED <<wvars, queue, mvars, uivars>>
       ELSE /\ created < MaxWorkers
            /\ LET w == created + 1 IN
               /\ status_bar' = "fetching"
               /\ fetch_button' = FALSE
               /\ copy_button' = FALSE
               /\ save_action' = FALSE
               /\ table' = [kind |-> "empty", by |-> w]
               /\ created' = w
               /\ fetch_worker' = w
               /\ is_running' = [is_running EXCEPT ![w] = TRUE]
               /\ wpc' = [wpc EXCEPT ![w] = "started"]
            /\ UNCHANGED <<app, resp, emitted, netCalls, stoppedAt, queue, handled>>
    /\ UNCHANGED rvars

\* populate_table(grant_chains_list), the slot of data_ready
populate_table(w, arg) ==
    /\ IF arg \in {"empty", "sentinel"}
         THEN /\ status_bar' = "no hierarchy"
              /\ copy_button' = FALSE
              /\ save_action' = FALSE
              /\ table' = [kind |-> arg, by |-> w]
         ELSE /\ table' = [kind |-> "rows", by |-> w]
              /\ status_bar' = "fetched"
              /\ copy_button' = TRUE
              /\ save_action' = TRUE
    /\ handled' = [handled EXCEPT ![w] = Append(@, "populate_table")]
    /\ UNCHANGED <<wvars, app, fetch_worker, created, fetch_button>>

\* show_fetch_error(error_message), the slot of error_occurred
show_fetch_error(w) ==
    /\ status_bar' = "error"
    /\ copy_button' = FALSE
    /\ save_action' = FALSE
    /\ handled' = [handled EXCEPT ![w] = Append(@, "show_fetch_error")]
    /\ UNCHANGED <<wvars, app, fetch_worker, created, fetch_button, table>>

\* on_fetch_finished, the slot of finished; q is the queue without this event
on_fetch_finished(w, q) ==
    /\ fetch_button' = TRUE
    /\ LET enable_actions == table.kind = "rows" IN
       /\ copy_button' = enable_actions
       /\ save_action' = enable_actions
    /\ IF fetch_worker # 0
         THEN /\ queue' = Append(q, Event("DeferredDelete", fetch_worker, "-"))
              /\ fetch_worker' = 0
         ELSE queue' = q /\ UNCHANGED fetch_worker
    /\ Release(w)
    /\ UNCHANGED <<app, created, table, status_bar>>

\* The deferred delete of a QThread object: fatal while its thread runs.
DeferredDelete(w) ==
    /\ app' = IF isRunning(w) THEN "aborted" ELSE app
    /\ UNCHANGED <<wvars, fetch_worker, created, handled, uivars>>

\* The event loop delivers the oldest posted event; events still pending when
\* the window has closed may be delivered before the loop is left.
DeliverEvent ==
    /\ app \in {"running", "closed"} /\ queue # <<>>
    /\ LET e == Head(queue) IN
       CASE e.sig = "data_ready" -> populate_table(e.w, e.arg) /\ queue' = Tail(queue)
         [] e.sig = "error_occurred" -> show_fetch_error(e.w) /\ queue' = Tail(queue)
         [] e.sig = "finished" -> on_fetch_finished(e.w, Tail(queue))
         [] e.sig = "DeferredDelete" -> DeferredDelete(e.w) /\ queue' = Tail(queue)
    /\ UNCHANGED rvars

\* closeEvent up to fetch_worker.wait(1000)
closeEvent ==
    /\ AcceptsInput
    /\ IF fetch_worker # 0 /\ isRunning(fetch_worker)
         THEN stop(fetch_worker) /\ app' = "closing"
         ELSE app' = "closed" /\ UNCHANGED <<is_running, stoppedAt>>
    /\ UNCHANGED <<wpc, resp, emitted, netCalls, queue, fetch_worker, created, handled,
                   uivars>>
    /\ UNCHANGED rvars

\* wait(1000) returns, the thread done or not, and event.accept() closes the window
closeEvent_accept ==
    /\ app = "closing"
    /\ app' = "closed"
    /\ UNCHANGED <<wvars, queue, fetch_worker, created, handled, uivars>>
    /\ UNCHANGED rvars

-----------------------------------------------------------------------------
(* get_role_hierarchy_route and the Grant Store                            *)
(*                                                                         *)
(* Strings are sequences of character codes.  The two ACCOUNT_USAGE views  *)
(* are sequences of rows; SQL gives their rows no order, and the route     *)
(* returns only path_string, by which the final SELECT orders, so the      *)
(* order of the sequences does not show in the response.  The recursive    *)
(* CTE is evaluated as SQL defines it: the anchor member first, then the   *)
(* recursive member over the rows the previous iteration added, until an   *)
(* iteration adds nothing.  Each row of user_role_hierarchy carries, as    *)
(* history, the role names its path_string was built from (chain).         *)

\* Bounds of the stores the route is run against.
MaxUserGrants == 2
MaxRoleGrants == 2
MaxRows == 24
ChainLen == 22

\* Line 82: urh.level < 20
MaxLevel == 20

\* Line 75 joining with ' / '.
SEP_Slash == <<32, 47, 32>>

\* Line 75: ' -> '
SEP == <<32, 45, 62, 32>>

\* Line 42: str.upper() on the letters of the model
Upper(s) == [i \in 1..Len(s) |-> IF s[i] \in 97..122 THEN s[i] - 32 ELSE s[i]]

\* Line 42: user_name_param.strip().upper()
Normalize(s) == Upper(Strip(s))

\* The comparison of ORDER BY path_string DESC.
StrLess_Descending(s, t) ==
    LET n == IF Len(s) < Len(t) THEN Len(s) ELSE Len(t)
        d == {i \in 1..n : s[i] # t[i]}
    IN  IF d = {} THEN Len(s) > Len(t)
        ELSE LET k == CHOOSE i \in d : \A j \in d : i <= j IN s[k] > t[k]

\* s < t in the binary collation ORDER BY uses: the first position where the
\* strings differ decides, and a proper prefix comes first
StrLess(s, t) ==
    LET n == IF Len(s) < Len(t) THEN Len(s) ELSE Len(t)
        d == {i \in 1..n : s[i] # t[i]}
    IN  IF d = {} THEN Len(s) < Len(t)
        ELSE LET k == CHOOSE i \in d : \A j \in d : i <= j IN s[k] < t[k]

\* Names of the model: users U and V, roles A, B and one named "A -> B".
UserU == <<85>>
UserV == <<86>>
RoleA == <<65>>
RoleB == <<66>>
RoleS == RoleA \o SEP \o RoleB

\* The role names of a chain of grants R1 <- R2 <- ... longer than the bound.
ChainRole(i) == <<82, 64 + i>>

\* request.args.get('user_name')
Params ==
    {[given |-> FALSE, text |-> <<>>]}
    \cup {[given |-> TRUE, text |-> t] :
             t \in {<<>>, <<32>>, <<117>>, <<32, 85, 32>>, <<86>>}}

\* The requests made over every store: none for a user, and " u " for user U.
QueryParams == {[given |-> FALSE, text |-> <<>>], [given |-> TRUE, text |-> <<32, 117, 32>>]}

UserGrant(g, r, d) == [GRANTEE_NAME |-> g, ROLE |-> r, DELETED_ON |-> d]

RoleGrant(g, n, p, o, d) ==
    [GRANTEE_NAME |-> g, NAME |-> n, PRIVILEGE |-> p, GRANTED_ON |-> o,
     DELETED_ON |-> d]

\* The rows the small stores are made of.
UserGrantRows ==
    << UserGrant(UserU, RoleA, "NULL"), UserGrant(UserU, RoleB, "NULL"),
       UserGrant(UserU, RoleS, "NULL"), UserGrant(UserU, RoleA, "deleted"),
       UserGrant(UserV, RoleB, "NULL") >>

RoleGrantRows ==
    << RoleGrant(RoleA, RoleA, "USAGE", "ROLE", "NULL"),
       RoleGrant(RoleA, RoleB, "USAGE", "ROLE", "NULL"),
       RoleGrant(RoleB, RoleA, "USAGE", "ROLE", "NULL"),
       RoleGrant(RoleB, RoleS, "USAGE", "ROLE", "NULL"),
       RoleGrant(RoleS, RoleA, "USAGE", "ROLE", "NULL"),
       RoleGrant(RoleA, RoleB, "OWNERSHIP", "ROLE", "NULL"),
       RoleGrant(RoleA, RoleB, "USAGE", "TABLE", "NULL"),
       RoleGrant(RoleA, RoleB, "USAGE", "ROLE", "deleted") >>

\* The tables of at most max rows taken from rows, repetitions allowed.
Tables(rows, max) ==
    UNION { { [i \in 1..k |-> rows[f[i]]] :
                f \in { g \in [1..k -> 1..Len(rows)] :
                          \A i \in 1..(k - 1) : g[i] <= g[i + 1] } } :
            k \in 0..max }

\* A store whose role grants form one chain of ChainLen roles under user U.
ChainStore ==
    [gtu |-> << UserGrant(UserU, ChainRole(1), "NULL") >>,
     gtr |-> [i \in 1..(ChainLen - 1) |->
                RoleGrant(ChainRole(i), ChainRole(i + 1), "USAGE", "ROLE", "NULL")]]

\* The store of the specification's scenario: ANALYST granted to user ALICE,
\* READER granted to role ANALYST.
Alice == <<65, 76, 73, 67, 69>>
Analyst == <<65, 78, 65, 76, 89, 83, 84>>
Reader == <<82, 69, 65, 68, 69, 82>>

ScenarioStore ==
    [gtu |-> << UserGrant(Alice, Analyst, "NULL") >>,
     gtr |-> << RoleGrant(Analyst, Reader, "USAGE", "ROLE", "NULL") >>]

EmptyStore == [gtu |-> <<>>, gtr |-> <<>>]

\* A store in which the only grant to user U has been revoked.
RevokedStore ==
    [gtu |-> << UserGrant(UserU, RoleA, "deleted") >>,
     gtr |-> << RoleGrant(RoleA, RoleB, "USAGE", "ROLE", "NULL") >>]

\* The stores and the requests the route is followed over with every failure
\* of the driver.
ServiceStores == {EmptyStore, ScenarioStore, RevokedStore}

ServiceParams ==
    Params \cup {[given |-> TRUE, text |-> t] : t \in {<<97, 108, 105, 99, 101>>, <<32, 65, 108, 105, 99, 101, 32>>}}

\* Lines 52-63: the anchor member over the rows of t, for the bound parameter p
RECURSIVE AnchorMember(_, _)
AnchorMember(t, p) ==
    IF t = <<>> THEN <<>>
    ELSE LET g == Head(t) IN
         (IF g.GRANTEE_NAME = p /\ g.DELETED_ON = "NULL"
            THEN << [level |-> 0, role_name |-> g.ROLE, granted_via_type |-> "USER",
                     granted_via_name |-> g.GRANTEE_NAME, path_string |-> g.ROLE,
                     chain |-> <<g.ROLE>>] >>
            ELSE <<>>)
         \o AnchorMember(Tail(t), p)

\* Line 82 with <= for <.
LevelBelowBound_Inclusive(l) == l <= MaxLevel

\* The recursive member without line 82: rows of every level are expanded.
LevelBelowBound_Unbounded(l) == TRUE

\* Line 82: AND urh.level < 20
LevelBelowBound(l) == l < MaxLevel

\* The recursive member without line 79: a grant of any privilege is followed.
RECURSIVE JoinRow_AnyPrivilege(_, _)
JoinRow_AnyPrivilege(u, t) ==
    IF t = <<>> THEN <<>>
    ELSE LET g == Head(t) IN
         (IF /\ g.GRANTEE_NAME = u.role_name
             /\ g.GRANTED_ON = "ROLE"
             /\ g.DELETED_ON = "NULL"
             /\ LevelBelowBound(u.level)
            THEN << [level |-> u.level + 1, role_name |-> g.NAME,
                     granted_via_type |-> "ROLE",
                     granted_via_name |-> g.GRANTEE_NAME,
                     path_string |-> u.path_string \o SEP \o g.NAME,
                     chain |-> Append(u.chain, g.NAME)] >>
            ELSE <<>>)
         \o JoinRow_AnyPrivilege(u, Tail(t))

\* Lines 69-83: the rows the recursive member yields for one row u of the CTE
RECURSIVE JoinRow(_, _)
JoinRow(u, t) ==
    IF t = <<>> THEN <<>>
    ELSE LET g == Head(t) IN
         (IF /\ g.GRANTEE_NAME = u.role_name
             /\ g.PRIVILEGE = "USAGE"
             /\ g.GRANTED_ON = "ROLE"
             /\ g.DELETED_ON = "NULL"
             /\ LevelBelowBound(u.level)
            THEN << [level |-> u.level + 1, role_name |-> g.NAME,
                     granted_via_type |-> "ROLE",
                     granted_via_name |-> g.GRANTEE_NAME,
                     path_string |-> u.path_string \o SEP \o g.NAME,
                     chain |-> Append(u.chain, g.NAME)] >>
            ELSE <<>>)
         \o JoinRow(u, Tail(t))

\* Lines 67-83: the recursive member over the rows w of the previous iteration
RECURSIVE RecursiveMember(_, _)
RecursiveMember(w, t) ==
    IF w = <<>> THEN <<>>
    ELSE JoinRow(Head(w), t) \o RecursiveMember(Tail(w), t)

\* UNION ALL replaced by keeping the rows of the deepest level only.
UnionAll_DeepestOnly(a, b) == IF b = <<>> THEN a ELSE b

\* UNION for UNION ALL: rows equal to a row already there are dropped.
UnionAll_Distinct(a, b) ==
    LET ab == a \o b
        keep == {i \in 1..Len(ab) : \A j \in 1..(i - 1) : ab[j] # ab[i]}
    IN  [k \in 1..Cardinality(keep) |->
            ab[CHOOSE i \in keep : Cardinality({j \in keep : j < i}) = k - 1]]

\* Line 65: UNION ALL
UnionAll(a, b) == a \o b

\* The final SELECT without its ORDER BY clause.
OrderByPathString_Unordered(rows) == rows

\* Lines 85-94: the final SELECT with ORDER BY path_string; SQL leaves the
\* order of rows of equal path_string open, and the route returns only
\* path_string
OrderByPathString(rows) ==
    SortSeq(rows, LAMBDA a, b : StrLess(a.path_string, b.path_string))

\* Lines 44-95: the rows of the whole query, the views read in stored order:
\* w is what the last iteration added, acc all the rows so far
RECURSIVE Expand(_, _, _)
Expand(w, t, acc) ==
    IF w = <<>> THEN acc
    ELSE LET rows == RecursiveMember(w, t) IN Expand(rows, t, UnionAll(acc, rows))

QueryRows(tu, tr, p) ==
    LET a == AnchorMember(tu, p) IN OrderByPathString(Expand(a, tr, a))

\* The number of rows the CTE yields for a store, counted up to MaxRows + 1.
RECURSIVE CountRows(_, _, _)
CountRows(w, t, n) ==
    IF w = <<>> \/ n > MaxRows THEN n
    ELSE LET next == RecursiveMember(w, t) IN CountRows(next, t, n + Len(next))

\* The stores of the model: the small ones, whatever the parameter, and the chain.
Stores ==
    { s \in [gtu : Tables(UserGrantRows, MaxUserGrants),
             gtr : Tables(RoleGrantRows, MaxRoleGrants)] :
        \A p \in {UserU, UserV} :
            LET a == AnchorMember(s.gtu, p) IN CountRows(a, s.gtr, Len(a)) <= MaxRows }
    \cup {ChainStore}

\* Line 119: the sentinel message, which quotes the parameter as it was sent
SentinelPrefix ==
    << 78, 111, 32, 114, 111, 108, 101, 32, 104, 105, 101, 114, 97, 114,
       99, 104, 121, 32, 102, 111, 117, 110, 100, 32, 102, 111, 114, 32,
       117, 115, 101, 114, 32, 39 >>

SentinelSuffix ==
    << 39, 46, 32, 85, 115, 101, 114, 32, 109, 97, 121, 32, 110, 111, 116,
       32, 101, 120, 105, 115, 116, 44, 32, 104, 97, 118, 101, 32, 110,
       111, 32, 114, 111, 108, 101, 115, 44, 32, 111, 114, 32, 103, 114,
       97, 110, 116, 115, 32, 97, 114, 101, 32, 110, 111, 116, 32, 118,
       105, 115, 105, 98, 108, 101, 46 >>

SentinelMessage(text) == SentinelPrefix \o text \o SentinelSuffix

\* The rows of a view in the order one execution reads them.
Scan(t) == IF scan = "forward" THEN t ELSE [i \in 1..Len(t) |-> t[Len(t) + 1 - i]]

\* A call of the driver returns.
Ok == [cls |-> "none", msg |-> {}]

\* The exceptions the driver raises: the class, and which of the phrases the
\* handlers look for the lower-cased message contains.
Exceptions ==
    { [cls |-> "ProgrammingError",
       msg |-> {"object does not exist or not authorized", "not authorized"}],
      [cls |-> "ProgrammingError", msg |-> {"not authorized"}],
      [cls |-> "ProgrammingError", msg |-> {"connection_name", "not found"}],
      [cls |-> "ProgrammingError", msg |-> {}],
      [cls |-> "ValueError", msg |-> {}],
      [cls |-> "DatabaseError", msg |-> {"not authorized"}],
      [cls |-> "Exception", msg |-> {}] }

Outcomes == {Ok} \cup Exceptions

\* No request has reached the route.
NoResponse == [status |-> 0, kind |-> "none", list |-> <<>>, error |-> "none"]

ErrorResponse(st, err) == [status |-> st, kind |-> "error", list |-> <<>>, error |-> err]

\* Lines 131-144 without the last handler: other exceptions leave the route.
HandleException_NoCatchAll(e) ==
    IF e.cls = "ProgrammingError"
      THEN IF "object does not exist or not authorized" \in e.msg
             THEN ErrorResponse(404, "NotFoundOrUnauthorized")
           ELSE IF "connection_name" \in e.msg /\ "not found" \in e.msg
             THEN ErrorResponse(500, "ConnectionNameNotFound")
           ELSE ErrorResponse(500, "QueryError")
    ELSE IF e.cls = "ValueError" THEN ErrorResponse(500, "ConfigurationError")
    ELSE [status |-> 0, kind |-> "propagated", list |-> <<>>, error |-> e.cls]

\* Lines 131-144: the except clauses of the route
HandleException(e) ==
    IF e.cls = "ProgrammingError"
      THEN IF "object does not exist or not authorized" \in e.msg
             THEN ErrorResponse(404, "NotFoundOrUnauthorized")
           ELSE IF "connection_name" \in e.msg /\ "not found" \in e.msg
             THEN ErrorResponse(500, "ConnectionNameNotFound")
           ELSE ErrorResponse(500, "QueryError")
    ELSE IF e.cls = "ValueError" THEN ErrorResponse(500, "ConfigurationError")
    ELSE ErrorResponse(500, "Unexpected")

\* An exception reaches the except clauses: the route answers with its mapping.
Raise(at, e) ==
    /\ raised' = [at |-> at, exc |-> e]
    /\ response' = HandleException(e)
    /\ qpc' = "responded"

\* Line 39 testing only for a parameter that is not there.
MissingParam_AbsentOnly(param) == ~param.given

\* Line 39: if not user_name_param
MissingParam(param) == ~param.given \/ param.text = <<>>

\* Lines 38-42: the parameter is read, refused if missing or empty, normalized
route_enter(param, order) ==
    /\ qpc = "idle"
    /\ user_name_param' = param
    /\ IF MissingParam(param)
         THEN /\ response' = ErrorResponse(400, "MissingParameter")
              /\ qpc' = "responded"
              /\ UNCHANGED <<user_name_upper, scan>>
         ELSE /\ user_name_upper' = Normalize(param.text)
              /\ scan' = order
              /\ qpc' = "connect"
              /\ UNCHANGED response
    /\ UNCHANGED <<qvars, cvars>>
    /\ UNCHANGED fvars

\* Lines 102-112: snowflake.connector.connect
route_connect(o) ==
    /\ qpc = "connect"
    /\ IF o = Ok
         THEN conn' = "open" /\ qpc' = "cursor" /\ UNCHANGED <<raised, response>>
         ELSE Raise("connect", o) /\ UNCHANGED conn
    /\ UNCHANGED <<qvars, user_name_param, user_name_upper, scan, cur, executed,
                   pending>>
    /\ UNCHANGED fvars

\* Line 113: connection.cursor(), outside the try block of line 115
route_cursor(o) ==
    /\ qpc = "cursor"
    /\ IF o = Ok
         THEN cur' = "open" /\ qpc' = "execute" /\ UNCHANGED <<raised, response>>
         ELSE Raise("cursor", o) /\ UNCHANGED cur
    /\ UNCHANGED <<qvars, user_name_param, user_name_upper, scan, conn, executed,
                   pending>>
    /\ UNCHANGED fvars

\* Line 117: cur.execute raises; the finally clause is next
cur_execute_raises(e) ==
    /\ qpc = "execute"
    /\ executed' = TRUE
    /\ raised' = [at |-> "execute", exc |-> e]
    /\ pending' = [ret |-> "raise", exc |-> e]
    /\ qpc' = "finally"
    /\ UNCHANGED <<qvars, user_name_param, user_name_upper, scan, conn, cur, response>>
    /\ UNCHANGED fvars

\* Lines 52-63, inside cur.execute: the anchor member
cte_anchor ==
    /\ qpc = "execute"
    /\ executed' = TRUE
    /\ LET rows == AnchorMember(Scan(gtu), user_name_upper) IN
       /\ urh' = rows
       /\ work' = rows
    /\ qpc' = "recursive"
    /\ UNCHANGED <<gtu, gtr, user_name_param, user_name_upper, results, response>>
    /\ UNCHANGED <<conn, cur, pending, scan, raised>>
    /\ UNCHANGED fvars

\* Lines 65-83: one iteration of the recursive member
cte_recursive ==
    /\ qpc = "recursive" /\ work # <<>>
    /\ LET rows == RecursiveMember(work, Scan(gtr)) IN
       /\ urh' = UnionAll(urh, rows)
       /\ work' = rows
    /\ UNCHANGED <<gtu, gtr, user_name_param, user_name_upper, qpc, results, response>>
    /\ UNCHANGED <<cvars, scan>>
    /\ UNCHANGED fvars

\* Lines 85-94: the last iteration added nothing; the final SELECT orders the rows
cte_final_select ==
    /\ qpc = "recursive" /\ work = <<>>
    /\ results' = OrderByPathString(urh)
    /\ qpc' = "fetched"
    /\ UNCHANGED <<gtu, gtr, user_name_param, user_name_upper, work, urh, response>>
    /\ UNCHANGED <<cvars, scan>>
    /\ UNCHANGED fvars

\* Lines 118-123: cur.fetchall(), then the return of the sentinel for no rows
\* or the path_string of every row appended to grant_chains
route_collect(o) ==
    /\ qpc = "fetched"
    /\ IF o = Ok
         THEN /\ pending' = [ret |-> IF results = <<>> THEN "sentinel" ELSE "paths",
                             exc |-> Ok]
              /\ UNCHANGED <<results, raised>>
         ELSE /\ pending' = [ret |-> "raise", exc |-> o]
              /\ raised' = [at |-> "fetchall", exc |-> o]
              /\ results' = <<>>
    /\ qpc' = "finally"
    /\ UNCHANGED <<gtu, gtr, work, urh, user_name_param, user_name_upper, scan, conn,
                   cur, executed, response>>
    /\ UNCHANGED fvars

\* Line 127: cur.close(); an exception here leaves the finally clause at once
cur_close(o) ==
    /\ qpc = "finally"
    /\ IF o = Ok
         THEN cur' = "closed" /\ qpc' = "finally_conn" /\ UNCHANGED <<raised, response>>
         ELSE cur' = "close_failed" /\ Raise("cur.close", o)
    /\ UNCHANGED <<qvars, user_name_param, user_name_upper, scan, conn, executed,
                   pending>>
    /\ UNCHANGED fvars

\* Line 128: connection.close()
connection_close(o) ==
    /\ qpc = "finally_conn"
    /\ IF o = Ok
         THEN conn' = "closed" /\ qpc' = "return" /\ UNCHANGED <<raised, response>>
         ELSE conn' = "close_failed" /\ Raise("connection.close", o)
    /\ UNCHANGED <<qvars, user_name_param, user_name_upper, scan, cur, executed,
                   pending>>
    /\ UNCHANGED fvars

\* Lines 119-120 left out: no rows give an empty list.
SuccessBody_NoSentinel(rows, text) ==
    [status |-> 200, kind |-> "paths",
     list |-> [i \in 1..Len(rows) |-> rows[i].path_string], error |-> "none"]

\* Lines 122-123 starting at the second row.
SuccessBody_SkipsFirstRow(rows, text) ==
    IF rows = <<>>
      THEN [status |-> 200, kind |-> "sentinel", list |-> <<SentinelMessage(text)>>,
            error |-> "none"]
      ELSE [status |-> 200, kind |-> "paths",
            list |-> [i \in 1..(Len(rows) - 1) |-> rows[i + 1].path_string],
            error |-> "none"]

\* Lines 120, 129: the body of a response of status 200
SuccessBody(rows, text) ==
    IF rows = <<>>
      THEN [status |-> 200, kind |-> "sentinel", list |-> <<SentinelMessage(text)>>,
            error |-> "none"]
      ELSE [status |-> 200, kind |-> "paths",
            list |-> [i \in 1..Len(rows) |-> rows[i].path_string], error |-> "none"]

\* Lines 120 and 129-144: the finally clause is done; the pending return is made,
\* or the pending exception reaches the except clauses
route_return ==
    /\ qpc = "return"
    /\ response' = IF pending.ret = "raise" THEN HandleException(pending.exc)
                   ELSE SuccessBody(results, user_name_param.text)
    /\ qpc' = "responded"
    /\ UNCHANGED <<gtu, gtr, user_name_param, user_name_upper, work, urh, results>>
    /\ UNCHANGED <<cvars, scan>>
    /\ UNCHANGED fvars

-----------------------------------------------------------------------------
(* The Fetch Client against the Query Service.  run_flask_in_thread serves  *)
(* the route in the process of the window, and FetchWorker calls it over    *)
(* HTTP.                                                                    *)

\* What requests.get and raise_for_status() make of a response of the route:
\* jsonify of a list with status 200, of {"error": ...} with status 400
\* (line 40), of {"error": ..., "details": ...} with status 404 or 500
\* (lines 131-144).
Wire(rsp) ==
    CASE rsp.kind \in {"paths", "sentinel"} /\ rsp.list = <<>> -> "ok_empty"
      [] rsp.kind = "paths" /\ rsp.list # <<>> -> "ok_rows"
      [] rsp.kind = "sentinel" /\ rsp.list # <<>> -> "ok_sentinel"
      [] rsp.kind = "error" /\ rsp.status = 400 -> "http_obj_error"
      [] rsp.kind = "error" /\ rsp.status # 400 -> "http_obj_both"

\* The params a FetchWorker sends: none (the default of __init__, line 164), or
\* the user name the window hands it, stripped (lines 359, 365): "u", "Alice".
RequestParams ==
    {[given |-> FALSE, text |-> <<>>]}
    \cup {[given |-> TRUE, text |-> Strip(t)] :
             t \in {<<32, 117, 32>>, <<65, 108, 105, 99, 101>>}}

\* Line 171: the call of a worker reaches the route.
route_request(param, order) ==
    /\ \E w \in Workers : wpc[w] = "inflight"
    /\ route_enter(param, order)

\* Lines 171-172: the answer of the route reaches the worker; the invocation
\* of the route is over, and response keeps what it returned.
run_get_served(w) ==
    /\ ThreadAlive /\ wpc[w] = "inflight" /\ qpc = "responded"
    /\ resp' = [resp EXCEPT ![w] = Wire(response)]
    /\ wpc' = [wpc EXCEPT ![w] = IF Wire(response) \in Ok2xx THEN "returned"
                                                             ELSE "except"]
    /\ qpc' = "idle"
    /\ user_name_param' = [given |-> FALSE, text |-> <<>>]
    /\ user_name_upper' = <<>>
    /\ work' = <<>> /\ urh' = <<>> /\ results' = <<>>
    /\ conn' = "none" /\ cur' = "none" /\ executed' = FALSE
    /\ pending' = [ret |-> "none", exc |-> Ok]
    /\ scan' = "forward"
    /\ raised' = [at |-> "none", exc |-> Ok]
    /\ UNCHANGED <<gtu, gtr, response>>
    /\ UNCHANGED <<is_running, emitted, netCalls, stoppedAt, queue, mvars, uivars>>

-----------------------------------------------------------------------------

\* SnowflakeViewerApp.__init__
InitWindow ==
    /\ app = "running"
    /\ fetch_worker = 0
    /\ created = 0
    /\ wpc = [w \in Workers |-> "none"]
    /\ is_running = [w \in Workers |-> TRUE]
    /\ resp = [w \in Workers |-> "none"]
    /\ emitted = [w \in Workers |-> <<>>]
    /\ netCalls = [w \in Workers |-> 0]
    /\ stoppedAt = [w \in Workers |-> "never"]
    /\ queue = <<>>
    /\ handled = [w \in Workers |-> <<>>]
    /\ fetch_button = TRUE
    /\ copy_button = FALSE
    /\ save_action = FALSE
    /\ table = [kind |-> "empty", by |-> 0]
    /\ status_bar = "ready"

\* The route before a request, over a store s
InitRoute(s) ==
    /\ gtu = s.gtu
    /\ gtr = s.gtr
    /\ user_name_param = [given |-> FALSE, text |-> <<>>]
    /\ user_name_upper = <<>>
    /\ qpc = "idle"
    /\ work = <<>>
    /\ urh = <<>>
    /\ results = <<>>
    /\ response = NoResponse
    /\ conn = "none"
    /\ cur = "none"
    /\ executed = FALSE
    /\ pending = [ret |-> "none", exc |-> Ok]
    /\ scan = "forward"
    /\ raised = [at |-> "none", exc |-> Ok]

\* The window, with no request made of the route
Init == InitWindow /\ InitRoute(EmptyStore)

Next ==
    \/ \E text \in InputTexts, via \in {"clicked", "returnPressed"} :
           start_fetch_data(text, via)
    \/ DeliverEvent
    \/ closeEvent
    \/ closeEvent_accept
    \/ \E w \in Workers : run_check_before(w)
    \/ \E w \in Workers, r \in ProtocolResponses : run_get_returns(w, r)
    \/ \E w \in Workers : run_check_after(w)
    \/ \E w \in Workers, m \in {"DecodeError", "TransportError"} : run_parse(w, m)
    \/ \E w \in Workers : run_except(w)
    \/ \E w \in Workers : QThread_emit_finished(w)

Spec == Init /\ [][Next]_vars

\* Single runs of FetchWorker, over every response of the transport call.
NextRun ==
    \/ \E text \in InputTexts, via \in {"clicked", "returnPressed"} :
           start_fetch_data(text, via) /\ created' <= MaxRuns
    \/ DeliverEvent
    \/ closeEvent
    \/ closeEvent_accept
    \/ \E w \in Workers : run_check_before(w)
    \/ \E w \in Workers, r \in Responses : run_get_returns(w, r)
    \/ \E w \in Workers : run_check_after(w)
    \/ \E w \in Workers, m \in {"DecodeError", "TransportError"} : run_parse(w, m)
    \/ \E w \in Workers : run_except(w)
    \/ \E w \in Workers : QThread_emit_finished(w)

SpecRun == Init /\ [][NextRun]_vars

\* The worker threads are scheduled, and the transport call returns or times out.
WorkerStep(w) ==
    \/ run_check_before(w)
    \/ \E r \in ProtocolResponses : run_get_returns(w, r)
    \/ run_check_after(w)
    \/ \E m \in {"DecodeError", "TransportError"} : run_parse(w, m)
    \/ run_except(w)
    \/ QThread_emit_finished(w)

FairSpec == Spec /\ \A w \in Workers : WF_vars(WorkerStep(w))

\* One request to get_role_hierarchy_route, over every store of the model.
InitQuery == InitWindow /\ \E s \in Stores : InitRoute(s)

NextQuery ==
    \/ \E param \in QueryParams, order \in {"forward", "reverse"} :
           route_enter(param, order)
    \/ route_connect(Ok)
    \/ route_cursor(Ok)
    \/ cte_anchor
    \/ cte_recursive
    \/ cte_final_select
    \/ route_collect(Ok)
    \/ cur_close(Ok)
    \/ connection_close(Ok)
    \/ route_return

SpecQuery == InitQuery /\ [][NextQuery]_vars

\* cur.execute evaluates the query: once called, the database carries the
\* evaluation on until the rows are there.
QueryStep == cte_anchor \/ cte_recursive \/ cte_final_select

FairQuery == SpecQuery /\ WF_vars(QueryStep)

\* One request to get_role_hierarchy_route, every call of the driver returning or
\* raising.
InitService == InitWindow /\ \E s \in ServiceStores : InitRoute(s)

NextService ==
    \/ \E param \in ServiceParams, order \in {"forward", "reverse"} :
           route_enter(param, order)
    \/ \E o \in Outcomes : route_connect(o)
    \/ \E o \in Outcomes : route_cursor(o)
    \/ \E e \in Exceptions : cur_execute_raises(e)
    \/ cte_anchor
    \/ cte_recursive
    \/ cte_final_select
    \/ \E o \in Outcomes : route_collect(o)
    \/ \E o \in Outcomes : cur_close(o)
    \/ \E o \in Outcomes : connection_close(o)
    \/ route_return

SpecService == InitService /\ [][NextService]_vars

\* The window and the route together: each call of a worker is answered by the
\* route, over the stores and with the failures of SpecService.  The stores
\* of SpecService have one row a view at most, so the order in which the rows
\* are read is left at "forward".
NextEndToEnd ==
    \/ \E text \in InputTexts, via \in {"clicked", "returnPressed"} :
           start_fetch_data(text, via) /\ created' <= MaxRuns
    \/ DeliverEvent
    \/ closeEvent
    \/ closeEvent_accept
    \/ \E w \in Workers : run_check_before(w)
    \/ \E param \in RequestParams : route_request(param, "forward")
    \/ \E o \in Outcomes : route_connect(o)
    \/ \E o \in Outcomes : route_cursor(o)
    \/ \E e \in Exceptions : cur_execute_raises(e)
    \/ cte_anchor
    \/ cte_recursive
    \/ cte_final_select
    \/ \E o \in Outcomes : route_collect(o)
    \/ \E o \in Outcomes : cur_close(o)
    \/ \E o \in Outcomes : connection_close(o)
    \/ route_return
    \/ \E w \in Workers : run_get_served(w)
    \/ \E w \in Workers : run_check_after(w)
    \/ \E w \in Workers, m \in {"DecodeError", "TransportError"} : run_parse(w, m)
    \/ \E w \in Workers : run_except(w)
    \/ \E w \in Workers : QThread_emit_finished(w)

SpecEndToEnd == InitService /\ [][NextEndToEnd]_vars

-----------------------------------------------------------------------------
(* Properties of the Fetch Client *)

RunningWorkers == {w \in Workers : isRunning(w)}

\* C1: at most one FetchWorker is in the Running state at any time.
\* Violated: a start made between the end of run() and the handling of the
\* finished event of the earlier worker is accepted, the late finished event
\* then clears fetch_worker, and the next start is accepted beside it.
C1_AtMostOneRunning == Cardinality(RunningWorkers) <= 1

\* C2: a start requested while fetch_worker is set and isRunning() changes
\* nothing but the status message: no worker is created, nothing is emitted
\* or queued, and the buttons, the table and fetch_worker stay as they were.
C2_StartWhileRunningIsNoOp ==
    [][((\E text \in InputTexts, via \in {"clicked", "returnPressed"} :
            start_fetch_data(text, via))
        /\ fetch_worker # 0 /\ isRunning(fetch_worker))
       => /\ UNCHANGED <<wvars, queue, mvars, fetch_button, copy_button,
                         save_action, table>>
          /\ status_bar' = "already in progress"]_vars

\* C2 witness: a start has been turned down while the worker was running.
C2_Witness ==
    /\ status_bar = "already in progress"
    /\ fetch_worker # 0 /\ isRunning(fetch_worker)

\* C3: one run of FetchWorker emits at most one of data_ready and
\* error_occurred, and emits it at most once.
C3_AtMostOneOutcome == \A w \in Workers : Len(emitted[w]) <= 1

\* C3 witness: a run that took the branch of lines 179-182 has ended with its
\* one outcome emitted.
C3_Witness ==
    \E w \in Workers :
        /\ emitted[w] = <<"error_occurred">>
        /\ wpc[w] = "finished"
        /\ \E i \in 1..Len(queue) :
               queue[i] = Event("error_occurred", w, "UnexpectedFormat")

\* C4: absent cancellation, a failure response (timeout, connection failure,
\* HTTP status >= 400, body that is not JSON, JSON that is not a list) makes
\* run() emit error_occurred exactly once and return.
\* Violated: the HTTPError handler applies `in` to whatever the error body
\* decodes to, and a JSON null or number raises TypeError out of run().
C4_FailureEmitsOneError ==
    [][\A w \in Workers :
         (/\ wpc[w] \in {"parse", "except"}
          /\ resp[w] \in FailureResponses
          /\ stoppedAt[w] = "never"
          /\ wpc'[w] # wpc[w])
         => /\ wpc'[w] = "run_done"
            /\ emitted'[w] = <<"error_occurred">>]_vars

\* C5: stop() called while the transport call is in flight suppresses both
\* signals, whatever the call returns, and run() returns normally.
C5_StopInFlightSuppresses ==
    \A w \in Workers :
        stoppedAt[w] = "inflight"
        => /\ emitted[w] = <<>>
           /\ wpc[w] \in {"inflight", "returned", "except", "run_done",
                          "finished"}

\* C5 witness: a worker stopped in flight has received a response and ended.
C5_Witness ==
    \E w \in Workers :
        stoppedAt[w] = "inflight" /\ wpc[w] = "finished" /\ netCalls[w] = 1

\* C6: stop() called before run() starts makes run() return without any
\* transport call and without emitting.
C6_StopBeforeRunNoCall ==
    \A w \in Workers :
        stoppedAt[w] = "started"
        => /\ netCalls[w] = 0
           /\ emitted[w] = <<>>
           /\ wpc[w] \in {"started", "run_done", "finished"}

\* C6 witness: a worker stopped before run() began has ended.
C6_Witness ==
    \E w \in Workers : stoppedAt[w] = "started" /\ wpc[w] = "finished"

\* C7: every accepted start is followed by the finished notification: no
\* worker stays in the Running state for ever.
\* Violated: an exception that leaves run(), or the deferred deletion of a
\* worker that is still running, ends the process with the worker Running.
C7_StartLeadsToFinished ==
    \A w \in Workers :
        (wpc[w] = "started") ~> (wpc[w] \in {"finished", "released"})

\* C8: when on_fetch_finished runs for a request, the outcome handler of that
\* request has already run, and the table it inspects is the table as filled
\* by that request.
\* Violated: a start accepted between the two events clears the table.
C8_OutcomeBeforeFinished ==
    [][\A w \in Workers :
         (/\ DeliverEvent
          /\ Head(queue) = Event("finished", w, "-")
          /\ emitted[w] # <<>>)
         => /\ handled[w] # <<>>
            /\ table.by = w]_vars
\* The four kinds of failure, for the responses that are failures of the
\* transport call or of decoding its body.
ExpectedClass(r) ==
    CASE r = "timeout" -> "Timeout"
      [] r = "conn_error" -> "TransportError"
      [] r \in Http4xx5xx -> "HttpError"
      [] r = "ok_undecodable" -> "DecodeError"

\* The kind of failure the message of an error_occurred event reports.
Classification(msg) ==
    CASE msg = "Timeout" -> "Timeout"
      [] msg = "TransportError" -> "TransportError"
      [] msg = "DecodeError" -> "DecodeError"
      [] msg \in {"HttpError", "HttpError+error", "HttpError+error+details"} -> "HttpError"
      [] OTHER -> "none"

\* C20: absent cancellation, a timeout makes run() emit one error_occurred with
\* the timeout message and no data_ready, and every failure of the call or of
\* decoding is reported once, with the message of its own kind among Timeout,
\* HttpError, TransportError and DecodeError.
\* Violated: a body that is not JSON raises requests' JSONDecodeError, which
\* is a RequestException and is reported by that handler as a transport
\* error; and an HTTP error whose body is a JSON null or number is not
\* reported at all (C4).
C20_FailureClassifiedOnce ==
    [][\A w \in Workers :
         (/\ wpc[w] \in {"parse", "except"}
          /\ resp[w] \in Http4xx5xx \cup {"timeout", "conn_error", "ok_undecodable"}
          /\ stoppedAt[w] = "never"
          /\ wpc'[w] # wpc[w])
         => /\ emitted'[w] = <<"error_occurred">>
            /\ queue' # <<>>
            /\ LET e == queue'[Len(queue')] IN
               /\ e.sig = "error_occurred" /\ e.w = w
               /\ Classification(e.arg) = ExpectedClass(resp[w])]_vars

\* The 2xx responses whose body response.json() decodes to a list, and to
\* something that is not a list.
ListBodies == {"ok_rows", "ok_sentinel", "ok_empty"}

OtherBodies == {"ok_error_object", "ok_other"}

\* C21: for a 2xx response on a request that was not cancelled, a parsed body
\* that is a list makes run() emit data_ready once, with that list, and no
\* error_occurred; a parsed body that is anything else makes it emit
\* error_occurred once and no data_ready.
C21_ListIsDataElseOneError ==
    [][\A w \in Workers :
         (/\ wpc[w] = "parse"
          /\ resp[w] \in ListBodies \cup OtherBodies
          /\ stoppedAt[w] = "never"
          /\ wpc'[w] # wpc[w])
         => /\ wpc'[w] = "run_done"
            /\ Len(queue') = Len(queue) + 1
            /\ LET e == queue'[Len(queue')] IN
               IF resp[w] \in ListBodies
                 THEN /\ emitted'[w] = <<"data_ready">>
                      /\ e = Event("data_ready", w, ListArg(resp[w]))
                 ELSE /\ emitted'[w] = <<"error_occurred">>
                      /\ e.sig = "error_occurred" /\ e.w = w
                      /\ e.arg \in {"BackendError", "UnexpectedFormat"}]_vars

\* C21 witness: a run that was not cancelled has handed on the empty list it
\* received, as data_ready, and has ended.
C21_Witness ==
    \E w \in Workers :
        /\ stoppedAt[w] = "never" /\ wpc[w] = "finished"
        /\ emitted[w] = <<"data_ready">>
        /\ \E i \in 1..Len(queue) : queue[i] = Event("data_ready", w, "empty")

\* C22: a start that is accepted empties the table and disables the fetch
\* button and the copy and save actions, and the worker it creates has done
\* nothing when this is seen; a start that is turned down, because the
\* referenced worker is running or because the user name is empty, creates no
\* worker and leaves the table, the buttons, the workers and the queue as
\* they were.
C22_AcceptedStartClearsRejectedKeeps ==
    [][\A text \in InputTexts, via \in {"clicked", "returnPressed"} :
         start_fetch_data(text, via)
         => IF AlreadyInProgress \/ Strip(text) = <<>>
              THEN UNCHANGED <<wvars, queue, mvars, fetch_button, copy_button,
                               save_action, table>>
              ELSE /\ created' = created + 1
                   /\ fetch_worker' = created'
                   /\ wpc'[created'] = "started"
                   /\ emitted'[created'] = <<>> /\ netCalls'[created'] = 0
                   /\ queue' = queue
                   /\ table' = [kind |-> "empty", by |-> created']
                   /\ ~fetch_button' /\ ~copy_button' /\ ~save_action']_vars

\* C22 witness: the outcome of a request has been shown by populate_table,
\* and a later start, accepted before that request's finished event was
\* handled, has emptied the table and disabled the buttons.
C22_Witness ==
    \E w \in Workers :
        /\ wpc[w] = "finished" /\ handled[w] = <<"populate_table">>
        /\ fetch_worker = w + 1 /\ wpc[w + 1] = "started"
        /\ table = [kind |-> "empty", by |-> w + 1]
        /\ ~fetch_button /\ ~copy_button /\ ~save_action

\* A step of closeEvent up to the wait: if the referenced worker is running its
\* flag is cleared and the main thread waits, else the close is accepted at
\* once; no slot runs and nothing is posted by it.
CloseEffect ==
    (app = "running" /\ app' \in {"closing", "closed"})
    => /\ IF fetch_worker # 0 /\ isRunning(fetch_worker)
            THEN ~is_running'[fetch_worker] /\ app' = "closing"
            ELSE app' = "closed" /\ UNCHANGED is_running
       /\ UNCHANGED <<wpc, emitted, queue, fetch_worker, handled, uivars>>

\* While the main thread is in wait(1000) it handles nothing, and the wait
\* ends with the close accepted unless the process has been ended.
WaitEffect ==
    app = "closing"
    => /\ app' \in {"closing", "closed", "aborted"}
       /\ UNCHANGED <<fetch_worker, handled, uivars>>

\* C23 as stated: closeEvent sets the flag of a running worker, waits and
\* accepts the close, and a worker whose flag was set emits no outcome
\* afterwards.  Violated: the flag is last read at line 174 (for a 2xx
\* response); when closeEvent sets it after that, while run() decodes the
\* body, lines 176-182 emit the outcome all the same.
C23_StoppedWorkerEmitsNothing ==
    [][/\ CloseEffect
       /\ WaitEffect
       /\ \A w \in Workers :
             stoppedAt[w] # "never" => Len(emitted'[w]) <= Len(emitted[w])]_vars

\* C23, amended: closeEvent sets the flag of a running worker, waits and
\* accepts the close whatever the worker does; a worker whose flag was set
\* before run() read it for the last time (before line 174 for a 2xx
\* response, before the test in the except clause otherwise), or after it
\* had emitted, emits no outcome afterwards.
C23_FlagSetBeforeLastCheckSuppresses ==
    [][/\ CloseEffect
       /\ WaitEffect
       /\ \A w \in Workers :
             stoppedAt[w] \notin {"never", "parse"}
             => Len(emitted'[w]) <= Len(emitted[w])]_vars

\* C23 witness: the close has been accepted while the worker whose flag it
\* set is still blocked in requests.get.
C23_Witness ==
    /\ app = "closed"
    /\ \E w \in Workers :
          /\ fetch_worker = w /\ ~is_running[w]
          /\ stoppedAt[w] = "inflight" /\ wpc[w] = "inflight"
          /\ emitted[w] = <<>>

\* C29: whenever a FetchWorker is running, fetch_worker refers to it, so that
\* the guard of start_fetch_data sees it.
\* Violated: on_fetch_finished clears fetch_worker, and posts the deferred
\* delete of the worker it refers to, whichever worker's finished signal it
\* handles; after a start accepted between the end of run() of a worker and
\* the handling of its finished event, that is the new worker, still running.
C29_RunningWorkerIsReferenced ==
    \A w \in Workers : isRunning(w) => fetch_worker = w

\* C30: every outcome the window handles belongs to the start accepted last:
\* when populate_table or show_fetch_error runs for an event, the worker that
\* emitted it is the one created last.
\* Violated: the outcome of a worker is still queued when the next start is
\* accepted (the worker is past run(), so isRunning() is false); it is
\* delivered after the table was cleared for the new request.
C30_OutcomeOfLatestStart ==
    [][(/\ DeliverEvent
        /\ Head(queue).sig \in {"data_ready", "error_occurred"})
       => Head(queue).w = created]_vars

-----------------------------------------------------------------------------
(* Properties of the role-hierarchy resolution *)

\* The segments of a path string: the pieces between occurrences of ' -> ',
\* taken from the left.
RECURSIVE Split(_)
Split(s) ==
    LET occ == {i \in 1..(Len(s) - Len(SEP) + 1) :
                   SubSeq(s, i, i + Len(SEP) - 1) = SEP}
    IN  IF occ = {} THEN <<s>>
        ELSE LET k == CHOOSE i \in occ : \A j \in occ : i <= j
             IN  <<SubSeq(s, 1, k - 1)>> \o Split(SubSeq(s, k + Len(SEP), Len(s)))

Segments(s) == Len(Split(s))

\* The names of a sequence joined by ' -> '; nothing joined is the empty string.
RECURSIVE JoinSep(_)
JoinSep(names) ==
    IF names = <<>> THEN <<>>
    ELSE IF Len(names) = 1 THEN names[1]
    ELSE names[1] \o SEP \o JoinSep(Tail(names))

\* The path strings of the result set.
ResultPaths == {results[i].path_string : i \in 1..Len(results)}

\* C9 as the specification states it: no returned path string has more than
\* 20 segments.  Violated: the recursive member expands the rows of level 19
\* (19 < 20), so rows of level 20, with 21 role names, are returned.
C9_AtMostTwentySegments ==
    response.kind = "paths"
    => \A i \in 1..Len(response.list) : Segments(response.list[i]) <= MaxLevel

\* C9, amended: every returned row has level at most 20 and its path string
\* joins level + 1 role names, at most 21; where no role name contains
\* ' -> ' the path string has exactly that many segments.  The list of the
\* response is the path strings of these rows.
C9_AtMostTwentyOneSegments ==
    /\ \A i \in 1..Len(results) :
          LET r == results[i] IN
          /\ r.level <= MaxLevel
          /\ Len(r.chain) = r.level + 1
          /\ r.path_string = JoinSep(r.chain)
          /\ (\A j \in 1..Len(r.chain) : Segments(r.chain[j]) = 1)
             => Segments(r.path_string) = r.level + 1
    /\ response.kind = "paths"
       => response.list = [i \in 1..Len(results) |-> results[i].path_string]

\* C9 witness: a path string of 21 segments, at level 20, has been returned.
C9_Witness ==
    /\ response.kind = "paths"
    /\ \E i \in 1..Len(results) :
          /\ results[i].level = MaxLevel
          /\ Segments(response.list[i]) = MaxLevel + 1

\* C10 as the specification states it: for a returned path string of level
\* L > 0, the string formed by its first L - 1 segments is in the result set.
\* Violated: a path of level L has L + 1 segments, and for L = 1 the first
\* L - 1 segments form the empty string.
C10_FirstLMinusOneSegmentsPresent ==
    \A i \in 1..Len(results) :
        LET r == results[i] IN
        r.level > 0
        => JoinSep(SubSeq(Split(r.path_string), 1, r.level - 1)) \in ResultPaths

\* C10, amended: for every returned row of level L > 0 the result set holds
\* its parent: a row of level L - 1, for the role the grant was made to,
\* whose path string is the row's path string without its last ' -> ' and
\* role name (its first L role names); this also holds at level 20.
C10_ParentPresent ==
    \A i \in 1..Len(results) :
        LET r == results[i] IN
        r.level > 0
        => \E j \in 1..Len(results) :
              /\ results[j].level = r.level - 1
              /\ results[j].role_name = r.granted_via_name
              /\ results[j].chain = SubSeq(r.chain, 1, r.level)
              /\ r.path_string = results[j].path_string \o SEP \o r.role_name

\* C10 witness: a response whose rows include one of level 1 and its parent.
C10_Witness ==
    /\ qpc = "responded"
    /\ \E i, j \in 1..Len(results) :
          /\ results[i].level = 1
          /\ results[j].level = 0
          /\ results[i].path_string
               = results[j].path_string \o SEP \o results[i].role_name
-----------------------------------------------------------------------------
(* Properties of the Query Service *)

\* The store holds a direct grant to principal p that has not been deleted.
HasDirectGrant(p) ==
    \E i \in 1..Len(gtu) : gtu[i].GRANTEE_NAME = p /\ gtu[i].DELETED_ON = "NULL"

\* The route has answered a request that passed the check of the parameter.
Answered == qpc = "responded" /\ ~MissingParam(user_name_param)

\* C11: when the principal has no direct grant that is not deleted and no call
\* of the driver fails, the response has status 200 and its body is a list of
\* exactly one element, the sentinel message; and no response of status 200,
\* on any path, has an empty list as its body.
C11_SentinelNeverEmptyList ==
    /\ (Answered /\ raised.at = "none" /\ ~HasDirectGrant(user_name_upper))
       => /\ response.status = 200
          /\ response.kind = "sentinel"
          /\ response.list = <<SentinelMessage(user_name_param.text)>>
    /\ response.status = 200 => Len(response.list) >= 1

\* C11 witness: the sentinel has been returned for a principal whose only
\* direct grant is deleted.
C11_Witness ==
    /\ Answered /\ response.kind = "sentinel" /\ Len(response.list) = 1
    /\ \E i \in 1..Len(gtu) :
          gtu[i].GRANTEE_NAME = user_name_upper /\ gtu[i].DELETED_ON # "NULL"
\* C12: what a resolution returns is determined by the store and the
\* principal: whatever order the execution reads the rows of the views in, the
\* list returned is the list of path strings of the query evaluated in stored
\* order, entry by entry; so two resolutions of one principal against an
\* unchanged store return the same sequence.
C12_SameStoreSameSequence ==
    (Answered /\ response.status = 200)
    => LET rows == QueryRows(gtu, gtr, user_name_upper) IN
       /\ Len(response.list) = IF rows = <<>> THEN 1 ELSE Len(rows)
       /\ rows # <<>>
          => \A i \in 1..Len(rows) : response.list[i] = rows[i].path_string

\* C12 witness: an execution that read the views in reverse order has
\* returned two equal path strings that come from different chains.
C12_Witness ==
    /\ Answered /\ scan = "reverse" /\ response.kind = "paths"
    /\ \E i, j \in 1..Len(results) :
          /\ i < j
          /\ response.list[i] = response.list[j]
          /\ results[i].chain # results[j].chain
\* C13: whenever the route has answered a request for which it opened a
\* connection, the connection has been closed (connection.close() was called).
\* Violated: connection.cursor() is called outside the try block whose finally
\* clause closes the connection, and an exception from cur.close() leaves the
\* finally clause before connection.close().
C13_ConnectionClosedOnExit ==
    (qpc = "responded" /\ conn # "none") => conn \in {"closed", "close_failed"}
\* C14: a request whose user_name parameter is absent or the empty string is
\* answered with status 400 and an error body; no connection is opened, no
\* cursor created and no query executed for it.
C14_MissingParameterIs400 ==
    (qpc # "idle" /\ (~user_name_param.given \/ user_name_param.text = <<>>))
    => /\ qpc = "responded"
       /\ response.status = 400 /\ response.kind = "error"
       /\ conn = "none" /\ cur = "none" /\ ~executed

\* C14 witness: a request with user_name= (the empty string) has been answered.
C14_Witness ==
    /\ qpc = "responded"
    /\ user_name_param = [given |-> TRUE, text |-> <<>>]
    /\ response.status = 400
\* C15: every response of the route has status 200, 400, 404 or 500; when a
\* call of the driver has raised (connect, cursor, execute, fetchall, either
\* close) the response is an error body with status 404 or 500, and no
\* exception leaves the route.
C15_ExceptionsAreMapped ==
    qpc = "responded"
    => /\ response.status \in {200, 400, 404, 500}
       /\ response.kind \in {"paths", "sentinel", "error"}
       /\ raised.at # "none"
          => response.status \in {404, 500} /\ response.kind = "error"

\* C15 witness: an exception of no class the route names, raised by
\* cur.close() in the finally clause after a query that succeeded, has been
\* answered with status 500.
C15_Witness ==
    /\ qpc = "responded"
    /\ raised = [at |-> "cur.close", exc |-> [cls |-> "Exception", msg |-> {}]]
    /\ pending.ret = "paths"
    /\ response.status = 500
\* C16: whenever the exception the route answers for is an error of the store
\* whose message mentions "not authorized", the response has status 404 and
\* the NotFoundOrUnauthorized message.
\* Violated: only a ProgrammingError whose lower-cased message contains the
\* whole phrase "object does not exist or not authorized" is answered with
\* 404; any other mention of "not authorized" is answered with 500.
C16_NotAuthorizedIs404 ==
    (qpc = "responded" /\ raised.at # "none" /\ "not authorized" \in raised.exc.msg)
    => /\ response.status = 404
       /\ response.error = "NotFoundOrUnauthorized"
\* The number of entries of the sequence of strings l that equal s.
Occurrences(l, s) == Cardinality({i \in 1..Len(l) : l[i] = s})

\* The path strings of the rows the recursive query has produced.
UrhPaths == [i \in 1..Len(urh) |-> urh[i].path_string]

\* C17: on success the list of the response is in non-decreasing byte-wise
\* order, it has one entry for every row of the recursive query and no other
\* (each path string as often as the query produced it), and it is the rows
\* fetched, in the order fetched.
C17_SortedOneEntryPerRow ==
    (Answered /\ response.kind = "paths")
    => /\ \A i, j \in 1..Len(response.list) :
             i < j => ~StrLess(response.list[j], response.list[i])
       /\ Len(response.list) = Len(urh)
       /\ \A i \in 1..Len(urh) :
             Occurrences(response.list, urh[i].path_string)
               = Occurrences(UrhPaths, urh[i].path_string)
       /\ response.list = [i \in 1..Len(results) |-> results[i].path_string]

\* C17 witness: role A granted to the user and role B granted to role A have
\* been answered with the list "A", "A -> B".
C17_Witness ==
    /\ Answered
    /\ gtu = << UserGrant(UserU, RoleA, "NULL") >>
    /\ gtr = << RoleGrant(RoleA, RoleB, "USAGE", "ROLE", "NULL") >>
    /\ response.list = << RoleA, RoleA \o SEP \o RoleB >>

\* The path string of the parent of row r: r's path string without its last
\* ' -> ' and role name.
ParentPath(r) ==
    SubSeq(r.path_string, 1, Len(r.path_string) - Len(SEP) - Len(r.role_name))

\* C18: in the list returned, every path string of level > 0 comes after an
\* entry that is the path string of its parent.
C18_ParentPrecedesChild ==
    (Answered /\ response.kind = "paths")
    => \A i \in 1..Len(results) :
          results[i].level > 0
          => \E j \in 1..(i - 1) : response.list[j] = ParentPath(results[i])

\* C18 witness: a child has been returned whose parent is not the entry just
\* before it.
C18_Witness ==
    /\ Answered /\ response.kind = "paths"
    /\ \E i \in 1..Len(results) :
          /\ results[i].level > 0
          /\ response.list[i - 1] # ParentPath(results[i])
          /\ \E j \in 1..(i - 2) : response.list[j] = ParentPath(results[i])
\* Lines 38-129 when no call of the driver fails: the answer of the route to
\* the parameter text, over the store as it is.
RouteAnswer(text) ==
    IF MissingParam([given |-> TRUE, text |-> text])
      THEN ErrorResponse(400, "MissingParameter")
      ELSE SuccessBody(QueryRows(gtu, gtr, Normalize(text)), text)

\* C19: a parameter and any parameter equal to it after trimming and
\* upper-casing get the same status and the same body; in particular the
\* response to a parameter is the response to its trimmed, upper-cased form.
\* Violated: the sentinel message quotes the parameter as it was sent, and a
\* parameter of white space only is resolved (status 200) while the empty
\* parameter it trims to is refused (status 400).
C19_NormalizedParamSameResponse ==
    (qpc = "responded" /\ user_name_param.given /\ raised.at = "none")
    => response = RouteAnswer(Normalize(user_name_param.text))

\* C32: the store is never queried with an empty principal: a request whose
\* user_name is absent, or empty once stripped and upper-cased, is answered
\* with status 400, and no connection is opened and no query executed for it.
\* Violated: line 39 tests the parameter as it was sent, before line 42
\* strips it; a parameter of white space only passes the test, and the query
\* is executed with the empty string as the principal.
C32_EmptyPrincipalNeverQueried ==
    /\ executed => user_name_upper # <<>>
    /\ (/\ qpc = "responded" /\ raised.at = "none"
        /\ (~user_name_param.given \/ Normalize(user_name_param.text) = <<>>))
       => /\ response.status = 400
          /\ conn = "none"

-----------------------------------------------------------------------------
(* Soundness, completeness and termination of the resolution *)

\* Lines 62-63: a row of grants_to_users the anchor member takes for principal p
ValidUserEdge(g, p) == g.GRANTEE_NAME = p /\ g.DELETED_ON = "NULL"

\* Lines 79-81: a row of grants_to_roles the recursive member follows
ValidRoleEdge(g) ==
    g.PRIVILEGE = "USAGE" /\ g.GRANTED_ON = "ROLE" /\ g.DELETED_ON = "NULL"

\* The store holds a live direct grant of role r to principal p.
DirectGrant(p, r) ==
    \E i \in 1..Len(gtu) : ValidUserEdge(gtu[i], p) /\ gtu[i].ROLE = r

\* The store holds a live grant of USAGE on role s to role r.
RoleEdge(r, s) ==
    \E i \in 1..Len(gtr) :
        ValidRoleEdge(gtr[i]) /\ gtr[i].GRANTEE_NAME = r /\ gtr[i].NAME = s

\* The role names c form a chain of grants of the store that starts at p.
IsGrantChain(c, p) ==
    /\ c # <<>>
    /\ DirectGrant(p, c[1])
    /\ \A i \in 1..(Len(c) - 1) : RoleEdge(c[i], c[i + 1])

\* C24: every row the expansion holds, and every path string the route
\* returns, is the join of role names r0, ..., rk such that the store holds a
\* direct grant of r0 to the normalized principal that is not deleted and,
\* for each i < k, a grant of USAGE on role r(i+1) to role r(i) that is not
\* deleted; deleted rows and rows of another privilege or granted-on kind
\* are never followed.
C24_EveryPathIsAGrantChain ==
    /\ \A i \in 1..Len(urh) :
          /\ urh[i].path_string = JoinSep(urh[i].chain)
          /\ urh[i].role_name = urh[i].chain[Len(urh[i].chain)]
          /\ IsGrantChain(urh[i].chain, user_name_upper)
    /\ (Answered /\ response.kind = "paths")
       => \A i \in 1..Len(response.list) :
             \E j \in 1..Len(urh) : response.list[i] = JoinSep(urh[j].chain)

\* C24 witness: a path of level 1 or more has been returned that ends at a
\* role whose only grant of another role in the store is deleted, or is of
\* another privilege or kind; that grant has not been followed.
C24_Witness ==
    /\ Answered /\ response.kind = "paths"
    /\ \E i \in 1..Len(results), j \in 1..Len(gtr) :
          /\ results[i].level >= 1
          /\ gtr[j].GRANTEE_NAME = results[i].role_name
          /\ ~ValidRoleEdge(gtr[j])
          /\ ~RoleEdge(gtr[j].GRANTEE_NAME, gtr[j].NAME)
          /\ \A k \in 1..Len(response.list) :
                response.list[k] # results[i].path_string \o SEP \o gtr[j].NAME
\* The role names that occur in the store.
RoleNames ==
    {gtu[i].ROLE : i \in 1..Len(gtu)} \cup {gtr[i].NAME : i \in 1..Len(gtr)}

\* The number of live direct grants of role r to principal p.
UserMult(p, r) ==
    Cardinality({i \in 1..Len(gtu) : ValidUserEdge(gtu[i], p) /\ gtu[i].ROLE = r})

\* The number of live grants of USAGE on role s to role r.
RoleMult(r, s) ==
    Cardinality({i \in 1..Len(gtr) :
                    ValidRoleEdge(gtr[i]) /\ gtr[i].GRANTEE_NAME = r
                                          /\ gtr[i].NAME = s})

\* The number of sequences of rows of the store that realise the chain of
\* role names c from principal p.
RECURSIVE ChainMult(_, _)
ChainMult(c, p) ==
    IF Len(c) = 1 THEN UserMult(p, c[1])
    ELSE ChainMult(SubSeq(c, 1, Len(c) - 1), p) * RoleMult(c[Len(c) - 1], c[Len(c)])

\* The grant chains of n role names that start at principal p.
RECURSIVE ChainsOfLength(_, _)
ChainsOfLength(p, n) ==
    IF n = 1 THEN {<<r>> : r \in {x \in RoleNames : DirectGrant(p, x)}}
    ELSE LET shorter == ChainsOfLength(p, n - 1) IN
         UNION { {Append(c, x) : x \in {y \in RoleNames : RoleEdge(c[n - 1], y)}} :
                 c \in shorter }

\* The grant chains from p within the bound of the expansion: level at most
\* MaxLevel, that is at most MaxLevel + 1 role names.
GrantChains(p) == UNION {ChainsOfLength(p, n) : n \in 1..(MaxLevel + 1)}

\* The number of rows fetched whose path was built from the role names c.
RowsOfChain(c) == Cardinality({i \in 1..Len(results) : results[i].chain = c})

\* C25: when the route has answered without a failure, the rows fetched are
\* the grant chains of the store from the normalized principal within the
\* bound of the expansion, each as often as there are sequences of rows of the
\* store that realise it (nothing is de-duplicated: a role reached through
\* several chains has a row for each, a duplicated grant duplicates the
\* paths through it); the list returned has one path string for each row, and
\* the sentinel is returned exactly when there is no chain.
C25_EveryChainOncePerEdgeSequence ==
    (Answered /\ raised.at = "none")
    => LET chains == GrantChains(user_name_upper) IN
       /\ \A c \in chains : RowsOfChain(c) = ChainMult(c, user_name_upper)
       /\ \A c \in chains : RowsOfChain(c) >= 1
       /\ \A i \in 1..Len(results) : results[i].chain \in chains
       /\ (chains = {}) <=> (response.kind = "sentinel")
       /\ chains # {}
          => /\ response.kind = "paths"
             /\ response.list = [i \in 1..Len(results) |-> JoinSep(results[i].chain)]

\* C25 witness: a grant that is in the store twice has been returned as two
\* equal paths, in a response that also holds one role at the end of two
\* different chains.
C25_Witness ==
    /\ Answered /\ response.kind = "paths"
    /\ \E i, j \in 1..Len(results) :
          /\ i < j /\ results[i].chain = results[j].chain
          /\ response.list[i] = response.list[j]
    /\ \E i, j \in 1..Len(results) :
          /\ results[i].role_name = results[j].role_name
          /\ results[i].chain # results[j].chain

\* The level of the rows the last iteration added; -1 when it added none.
WorkLevel == IF work = <<>> THEN -1 ELSE work[1].level

\* No row of the last iteration has a grant the recursive member would follow.
NoEdgeFromWork ==
    \A i \in 1..Len(work) : \A y \in RoleNames : ~RoleEdge(work[i].role_name, y)

\* C26: the expansion terminates on every store, cycles of role grants
\* included.  The rows an iteration adds are all of one level, at most
\* MaxLevel; each iteration adds rows one level up or adds none; it adds none
\* exactly when no row of the last iteration has a grant to follow or the
\* level bound is reached; and a query that has started always reaches its
\* final SELECT, with finitely many rows.
C26_ExpansionTerminates ==
    /\ [](qpc = "recursive"
          => /\ WorkLevel <= MaxLevel
             /\ \A i \in 1..Len(work) : work[i].level = WorkLevel
             /\ \A i \in 1..Len(urh) : urh[i].level <= MaxLevel)
    /\ [][(qpc = "recursive" /\ work # <<>> /\ work' # work)
          => /\ work' # <<>> => WorkLevel' = WorkLevel + 1
             /\ (work' = <<>>) <=> (WorkLevel = MaxLevel \/ NoEdgeFromWork)]_vars
    /\ (qpc = "execute") ~> (qpc = "fetched" /\ work = <<>>)

\* C26 witness: over a store in which two roles are granted to each other,
\* the expansion has stopped at the level bound.
C26_Witness ==
    /\ qpc = "fetched" /\ work = <<>>
    /\ \E r, x \in RoleNames : r # x /\ RoleEdge(r, x) /\ RoleEdge(x, r)
    /\ \E i \in 1..Len(urh) : urh[i].level = MaxLevel

\* The number of occurrences of '->' in the string s.
Arrows(s) == Cardinality({i \in 1..(Len(s) - 1) : s[i] = 45 /\ s[i + 1] = 62})

\* The number of occurrences of '->' inside the role names c.
ArrowsInNames(c) ==
    Cardinality(UNION { {<<k, i>> : i \in {j \in 1..(Len(c[k]) - 1) :
                                              c[k][j] = 45 /\ c[k][j + 1] = 62}} :
                        k \in 1..Len(c) })

\* C27 as stated: the level of every row of the expansion is the number of
\* '->' in its path string, whatever the role names are.  Violated: role
\* names are joined as they are, and a role named 'A -> B' granted to the
\* user is a row of level 0 whose path string holds one '->'.
C27_LevelIsSeparatorCount ==
    \A i \in 1..Len(urh) : urh[i].level = Arrows(urh[i].path_string)

\* C27, amended: the path string of every row of the expansion joins
\* level + 1 role names with level separators; the number of '->' in it is
\* the level plus the number of '->' inside its role names, and so equals the
\* level when no role name on the path contains '->'.
C27_LevelIsJoinedSeparatorCount ==
    \A i \in 1..Len(urh) :
        LET r == urh[i] IN
        /\ Len(r.chain) = r.level + 1
        /\ r.path_string = JoinSep(r.chain)
        /\ Arrows(r.path_string) = r.level + ArrowsInNames(r.chain)
        /\ ArrowsInNames(r.chain) = 0 => r.level = Arrows(r.path_string)

\* C27 witness: a row of level 1 whose path string holds two '->', one
\* joined by the expansion and one inside a role name.
C27_Witness ==
    \E i \in 1..Len(urh) :
        /\ urh[i].level = 1
        /\ Arrows(urh[i].path_string) = 2
        /\ ArrowsInNames(urh[i].chain) = 1
-----------------------------------------------------------------------------
(* Properties of the Fetch Client against the Query Service *)

\* C28: every error response of the route (status 400, 404 or 500) reaches the
\* worker as an HTTPError whose body is an object holding 'error', and
\* 'details' too unless the status is 400; a worker that was not cancelled
\* then emits error_occurred once, with the message made of the status line,
\* the error text and the details when the body has them, emits no
\* data_ready, and run() returns.
C28_ErrorResponseIsOneDetailedError ==
    [][\A w \in Workers :
         /\ (wpc[w] = "inflight" /\ wpc'[w] # "inflight" /\ response.kind = "error")
            => /\ response.status \in {400, 404, 500}
               /\ wpc'[w] = "except"
               /\ resp'[w] = IF response.status = 400 THEN "http_obj_error"
                                                       ELSE "http_obj_both"
         /\ (/\ wpc[w] = "except" /\ wpc'[w] # wpc[w]
             /\ stoppedAt[w] = "never")
            => /\ wpc'[w] = "run_done"
               /\ emitted'[w] = <<"error_occurred">>
               /\ Len(queue') = Len(queue) + 1
               /\ queue'[Len(queue')]
                    = Event("error_occurred", w,
                            IF resp[w] = "http_obj_error"
                              THEN "HttpError+error"
                              ELSE "HttpError+error+details")]_vars

\* C28 witness: the route has answered 404 for an error of the store, and the
\* worker, not cancelled, has emitted the one error with its details.
C28_Witness ==
    /\ response.status = 404 /\ qpc = "idle"
    /\ \E w \in Workers :
          /\ stoppedAt[w] = "never" /\ wpc[w] = "finished"
          /\ emitted[w] = <<"error_occurred">>
          /\ \E i \in 1..Len(queue) :
                queue[i] = Event("error_occurred", w, "HttpError+error+details")

\* C31: every response of the route with status 200 has a list of one or more
\* strings as its body, the path strings or the one sentinel message; it
\* reaches the worker as a list that is not empty, and a worker that was not
\* cancelled then emits data_ready once, with that list, and no
\* error_occurred.
C31_Every200IsDataReady ==
    [][\A w \in Workers :
         /\ (qpc = "responded" /\ response.status = 200)
            => /\ response.kind \in {"paths", "sentinel"}
               /\ Len(response.list) >= 1
               /\ \A i \in 1..Len(response.list) :
                     response.list[i] \in Seq(0..127)
         /\ (wpc[w] = "inflight" /\ wpc'[w] # "inflight" /\ response.status = 200)
            => /\ wpc'[w] = "returned"
               /\ resp'[w] \in {"ok_rows", "ok_sentinel"}
         /\ (wpc[w] = "parse" /\ wpc'[w] # wpc[w] /\ stoppedAt[w] = "never")
            => /\ emitted'[w] = <<"data_ready">>
               /\ Len(queue') = Len(queue) + 1
               /\ queue'[Len(queue')] = Event("data_ready", w, ListArg(resp[w]))
               /\ ListArg(resp[w]) \in {"rows", "sentinel"}]_vars

\* C31 witness: the route has answered 200 with the sentinel, and the worker,
\* not cancelled, has handed it on as data_ready.
C31_Witness ==
    /\ response.status = 200 /\ response.kind = "sentinel" /\ qpc = "idle"
    /\ \E w \in Workers :
          /\ stoppedAt[w] = "never" /\ wpc[w] = "finished"
          /\ emitted[w] = <<"data_ready">>
          /\ \E i \in 1..Len(queue) : queue[i] = Event("data_ready", w, "sentinel")
=============================================================================
